---- MODULE Spec2Model ----
(***************************************************************************)
(* State-machine model of dense_retriever/estimators/base.py:              *)
(* BaseEstimator construction, fit and predict, and the softmax used by    *)
(* the compute_f1 metric function.                                         *)
(*                                                                         *)
(* Hooks (_load_model, _load_dataset, _save_model,                         *)
(* _save_inference_results) and the framework calls (Trainer.train,        *)
(* Trainer.save_state, model.get_embed) either return or raise; the base   *)
(* class's own hooks raise NotImplementedError.                            *)
(***************************************************************************)
EXTENDS Integers, Sequences, FiniteSets, TLC

\* ---------------------------------------------------------------- bounds
MaxLen == 3
MaxBatch == 2
MaxRows == 2
MaxClasses == 2
MaxLogit == 2
MaxShift == 1

\* ------------------------------------------------------- program constants
\* Python's None, encoded as an integer outside every argument's range.
None == -1

WARMUP_STEPS == 500
LOGGING_STEPS == 500
EVAL_STEPS == 5000

\* base.py:10-13, the fixed mapping of supported model types.
MODEL_TYPES_Extra ==
    [t \in {"bert-dot-bce", "bert-dot-pairwise-ranking", "bert-cross-encoder"} |->
        IF t = "bert-dot-bce" THEN "BertDotBCEModel"
        ELSE "BertDotPairwiseRankingModel"]

MODEL_TYPES ==
    [t \in {"bert-dot-bce", "bert-dot-pairwise-ranking"} |->
        IF t = "bert-dot-bce" THEN "BertDotBCEModel"
        ELSE "BertDotPairwiseRankingModel"]

\* ------------------------------------------------------------ input sets
ModelTypeInputs == {"bert-dot-bce", "bert-dot-pairwise-ranking", "bert-cross-encoder"}

\* (train_steps, num_epochs, accum_steps, lr); lr in units of 1e-6.
Hypers ==
    { [train_steps |-> 100, num_epochs |-> 3, accum_steps |-> 2, lr |-> 30],
      [train_steps |-> 5000, num_epochs |-> 1, accum_steps |-> 1, lr |-> 10] }

BatchSizeInputs == (1..MaxBatch) \cup {8}
EvalBatchSizeInputs == {None} \cup (1..MaxBatch)
SaveStepsInputs == {None, 1000}
DeviceInputs == {"None", "cpu"}

CtorArgs ==
    { [model_type |-> t,
       train_steps |-> h.train_steps,
       num_epochs |-> h.num_epochs,
       batch_size |-> b,
       accum_steps |-> h.accum_steps,
       lr |-> h.lr,
       device |-> d,
       eval_batch_size |-> e,
       save_steps |-> s] :
        t \in ModelTypeInputs, h \in Hypers, b \in BatchSizeInputs,
        d \in DeviceInputs, e \in EvalBatchSizeInputs, s \in SaveStepsInputs }

NoArgs ==
    [model_type |-> "", train_steps |-> None, num_epochs |-> None,
     batch_size |-> None, accum_steps |-> None, lr |-> None, device |-> "",
     eval_batch_size |-> None, save_steps |-> None]

NoSelf ==
    [model_class |-> "", train_steps |-> None, num_epochs |-> None,
     batch_size |-> None, accum_steps |-> None, lr |-> None, device |-> "",
     eval_batch_size |-> None, save_strategy |-> "", save_steps |-> None]

NoTrainArgs ==
    [max_steps |-> None, num_train_epochs |-> None,
     per_device_train_batch_size |-> None, per_device_eval_batch_size |-> None,
     gradient_accumulation_steps |-> None, learning_rate |-> None,
     warmup_steps |-> None, logging_steps |-> None,
     lr_scheduler_type |-> "", evaluation_strategy |-> "",
     eval_steps |-> None, save_strategy |-> "", save_steps |-> None]

\* What a hook or framework call can do: return, or raise.
HookErrors == {"NotImplementedError", "RuntimeError"}
Outcomes == {"ok"} \cup HookErrors

\* A row of a test split: an example with an id column and tensor columns.
Row(k) == [doc_id |-> 100 + k, input_ids |-> 10 * k]

\* Test splits of 0..MaxLen distinct rows, ids ascending or descending.
Splits ==
    { [i \in 1..n |-> Row(i)] : n \in 0..MaxLen } \cup
    { [i \in 1..n |-> Row(n + 1 - i)] : n \in 0..MaxLen }

Min(a, b) == IF a < b THEN a ELSE b

\* ------------------------------------------------------------- variables
VARIABLES
    pc,               \* control position of the caller
    args,             \* the constructor's arguments
    self,             \* the estimator's fields
    loadModelCalls,   \* number of _load_model invocations
    modelDevice,      \* device the model lives on
    modelTraining,    \* model.training
    gradEnabled,      \* torch.is_grad_enabled()
    gradPrev,         \* the mode saved by the no_grad scope
    call,             \* "none" | "fit" | "predict": the current or last call
    events,           \* hook and framework calls made by the current call
    thrown,           \* the error raised by a callee, "none" if none
    err,              \* the error the caller observes, "none" if none
    train_args,       \* the TrainingArguments fit builds
    test,             \* dataset['test'] of the predict call
    dl_batch_size,    \* batch size of predict's DataLoader
    ids,              \* extract_ids(dataset, id_col)
    nextBatch,        \* 1-based index of the next batch the iterator yields
    total_embeddings, \* list of per-batch embedding blocks
    stacked,          \* np.vstack(total_embeddings)
    saved,            \* argument handed to _save_inference_results
    ret,              \* value predict returns
    embedCtx,         \* (grad, device, training) seen at get_embed calls
    m_pc,             \* metric function: "idle" | "ready" | "done"
    logits,           \* eval_pred logits, batch x classes
    shiftRow,         \* row of logits to which a constant is added
    shiftBy,          \* the constant
    predictions,      \* softmax(logits)
    predictionsShifted \* softmax(logits with shiftRow shifted by shiftBy)

estVars ==
    << pc, args, self, loadModelCalls, modelDevice, modelTraining, gradEnabled,
       gradPrev, call, events, thrown, err, train_args, test,
       dl_batch_size, ids, nextBatch, total_embeddings, stacked, saved, ret,
       embedCtx >>

metricVars == << m_pc, logits, shiftRow, shiftBy, predictions, predictionsShifted >>

vars == << estVars, metricVars >>

callVars ==
    << train_args, test, dl_batch_size, ids, nextBatch, total_embeddings,
       stacked, saved, ret, embedCtx >>

NoSaved == [emb |-> <<>>, ids |-> <<>>, called |-> FALSE]

\* ------------------------------------------------------------ construction
\* base.py:64-67
ResolveDevice(device, cuda_available) ==
    IF device = "None"
    THEN (IF cuda_available THEN "cuda" ELSE "cpu")
    ELSE device

\* base.py:69-72
ResolveEvalBatchSize_Ignore(batch_size, eval_batch_size) == batch_size

ResolveEvalBatchSize(batch_size, eval_batch_size) ==
    IF eval_batch_size = None THEN batch_size ELSE eval_batch_size

\* base.py:74-79
ResolveSaveStrategy_Swapped(save_steps) ==
    IF save_steps = None THEN "steps" ELSE "epoch"

ResolveSaveStrategy(save_steps) ==
    IF save_steps = None THEN "epoch" ELSE "steps"

ResolveSaveSteps(save_steps) ==
    IF save_steps = None THEN 0 ELSE save_steps

EstInit ==
    /\ pc = "new"
    /\ args = NoArgs
    /\ self = NoSelf
    /\ loadModelCalls = 0
    /\ modelDevice = "cpu"
    /\ modelTraining = FALSE
    /\ gradEnabled = TRUE
    /\ gradPrev = TRUE
    /\ call = "none"
    /\ events = <<>>
    /\ thrown = "none"
    /\ err = "none"
    /\ train_args = NoTrainArgs
    /\ test = <<>>
    /\ dl_batch_size = None
    /\ ids = <<>>
    /\ nextBatch = 1
    /\ total_embeddings = <<>>
    /\ stacked = <<>>
    /\ saved = NoSaved
    /\ ret = <<>>
    /\ embedCtx = {}

MetricIdle ==
    /\ m_pc = "idle"
    /\ logits = <<>>
    /\ shiftRow = 0
    /\ shiftBy = 0
    /\ predictions = <<>>
    /\ predictionsShifted = <<>>

\* BaseEstimator.__init__, base.py:51-80.  `o` is what _load_model does,
\* `training` the mode of the model it returns, `cuda` the value of
\* torch.cuda.is_available().
Construct(a, cuda, o, training) ==
    /\ pc = "new"
    /\ args' = a
    /\ IF a.model_type \notin DOMAIN MODEL_TYPES
       THEN \* line 52: the dict lookup raises KeyError
            /\ pc' = "ctor_failed"
            /\ thrown' = "KeyError"
            /\ err' = "KeyError"
            /\ UNCHANGED << self, loadModelCalls, modelTraining >>
       ELSE /\ loadModelCalls' = loadModelCalls + 1
            /\ IF o # "ok"
               THEN \* line 62: _load_model raised
                    /\ pc' = "ctor_failed"
                    /\ thrown' = o
                    /\ err' = o
                    /\ UNCHANGED << self, modelTraining >>
               ELSE /\ pc' = "ready"
                    /\ modelTraining' = training
                    /\ self' =
                        [model_class |-> MODEL_TYPES[a.model_type],
                         train_steps |-> a.train_steps,
                         num_epochs |-> a.num_epochs,
                         batch_size |-> a.batch_size,
                         accum_steps |-> a.accum_steps,
                         lr |-> a.lr,
                         device |-> ResolveDevice(a.device, cuda),
                         eval_batch_size |->
                            ResolveEvalBatchSize(a.batch_size, a.eval_batch_size),
                         save_strategy |-> ResolveSaveStrategy(a.save_steps),
                         save_steps |-> ResolveSaveSteps(a.save_steps)]
                    /\ UNCHANGED << thrown, err >>
    /\ UNCHANGED << modelDevice, gradEnabled, gradPrev, call, events >>
    /\ UNCHANGED callVars
    /\ UNCHANGED metricVars

\* ------------------------------------------------------------------ calls
Idle == pc \in {"ready", "returned", "raised"}

\* A callee raised `e`: nothing in fit or predict catches it.
Raise(e) ==
    /\ pc' = "raised"
    /\ thrown' = e
    /\ err' = e

\* Entering fit or predict: the previous call's locals are gone.
ResetCall ==
    /\ train_args' = NoTrainArgs
    /\ dl_batch_size' = None
    /\ nextBatch' = 1
    /\ total_embeddings' = <<>>
    /\ stacked' = <<>>
    /\ saved' = NoSaved
    /\ ret' = <<>>
    /\ embedCtx' = {}

\* -------------------------------------------------------------------- fit
FullFitEvents == << "load_dataset", "train", "save_state", "save_model" >>

\* base.py:95, self._load_dataset(dataset_dir, torch_columns=None)
FitLoadDataset(o) ==
    /\ Idle
    /\ call' = "fit"
    /\ events' = << "load_dataset" >>
    /\ ResetCall
    /\ test' = <<>>
    /\ ids' = <<>>
    /\ IF o = "ok"
       THEN pc' = "fit_args" /\ thrown' = "none" /\ err' = "none"
       ELSE Raise(o)
    /\ UNCHANGED << args, self, loadModelCalls, modelDevice, modelTraining,
                    gradEnabled, gradPrev >>
    /\ UNCHANGED metricVars

\* base.py:96-112, the TrainingArguments built from the estimator's fields.
TrainingArguments_WarmupFromSteps(s) ==
    [max_steps |-> s.train_steps,
     num_train_epochs |-> s.num_epochs,
     per_device_train_batch_size |-> s.batch_size,
     per_device_eval_batch_size |-> s.batch_size,
     gradient_accumulation_steps |-> s.accum_steps,
     learning_rate |-> s.lr,
     warmup_steps |-> s.train_steps,
     logging_steps |-> LOGGING_STEPS,
     lr_scheduler_type |-> "constant",
     evaluation_strategy |-> "steps",
     eval_steps |-> EVAL_STEPS,
     save_strategy |-> s.save_strategy,
     save_steps |-> s.save_steps]

TrainingArguments(s) ==
    [max_steps |-> s.train_steps,
     num_train_epochs |-> s.num_epochs,
     per_device_train_batch_size |-> s.batch_size,
     per_device_eval_batch_size |-> s.batch_size,
     gradient_accumulation_steps |-> s.accum_steps,
     learning_rate |-> s.lr,
     warmup_steps |-> WARMUP_STEPS,
     logging_steps |-> LOGGING_STEPS,
     lr_scheduler_type |-> "constant",
     evaluation_strategy |-> "steps",
     eval_steps |-> EVAL_STEPS,
     save_strategy |-> s.save_strategy,
     save_steps |-> s.save_steps]

\* base.py:96-119, train_args and the Trainer are built.
FitBuildArgs ==
    /\ pc = "fit_args"
    /\ train_args' = TrainingArguments(self)
    /\ pc' = "fit_train"
    /\ UNCHANGED << args, self, loadModelCalls, modelDevice, modelTraining,
                    gradEnabled, gradPrev, call, events, thrown, err,
                    test, dl_batch_size, ids, nextBatch, total_embeddings,
                    stacked, saved, ret, embedCtx >>
    /\ UNCHANGED metricVars

\* base.py:121, trainer.train(...) swallowing the driver's error.
FitTrain_Swallow(o) ==
    /\ pc = "fit_train"
    /\ events' = Append(events, "train")
    /\ pc' = "fit_save_state"
    /\ modelTraining' = TRUE
    /\ thrown' = (IF o = "ok" THEN thrown ELSE o)
    /\ UNCHANGED err
    /\ UNCHANGED << args, self, loadModelCalls, modelDevice, gradEnabled,
                    gradPrev, call >>
    /\ UNCHANGED callVars
    /\ UNCHANGED metricVars

\* base.py:120-122, trainer.train(resume_from_checkpoint=...); the driver
\* trains the model in place (training mode).
FitTrain(o) ==
    /\ pc = "fit_train"
    /\ events' = Append(events, "train")
    /\ IF o = "ok"
       THEN pc' = "fit_save_state" /\ modelTraining' = TRUE /\ UNCHANGED << thrown, err >>
       ELSE Raise(o) /\ UNCHANGED modelTraining
    /\ UNCHANGED << args, self, loadModelCalls, modelDevice, gradEnabled,
                    gradPrev, call >>
    /\ UNCHANGED callVars
    /\ UNCHANGED metricVars

\* base.py:123, trainer.save_state()
FitSaveState(o) ==
    /\ pc = "fit_save_state"
    /\ events' = Append(events, "save_state")
    /\ IF o = "ok"
       THEN pc' = "fit_save_model" /\ UNCHANGED << thrown, err >>
       ELSE Raise(o)
    /\ UNCHANGED << args, self, loadModelCalls, modelDevice, modelTraining,
                    gradEnabled, gradPrev, call >>
    /\ UNCHANGED callVars
    /\ UNCHANGED metricVars

\* base.py:124, self._save_model(trainer, model_out_dir), then fit returns.
FitSaveModel(o) ==
    /\ pc = "fit_save_model"
    /\ events' = Append(events, "save_model")
    /\ IF o = "ok"
       THEN pc' = "returned" /\ UNCHANGED << thrown, err >>
       ELSE Raise(o)
    /\ UNCHANGED << args, self, loadModelCalls, modelDevice, modelTraining,
                    gradEnabled, gradPrev, call >>
    /\ UNCHANGED callVars
    /\ UNCHANGED metricVars

\* ---------------------------------------------------------------- predict
\* len(dataloader): torch's DataLoader with drop_last=False yields
\* ceil(n / batch_size) batches.
NumBatches_DropLast(n, batch_size) == n \div batch_size

NumBatches(n, batch_size) == (n + batch_size - 1) \div batch_size

\* The k-th batch (1-based) of an unshuffled DataLoader: consecutive rows.
Batch(split, batch_size, k) ==
    SubSeq(split, (k - 1) * batch_size + 1, Min(k * batch_size, Len(split)))

\* base.py:16-18
extract_ids(split) == [i \in 1..Len(split) |-> split[i].doc_id]

\* The embedding the model computes for one example's tensors.
EmbedOf(input_ids) == input_ids + 7

\* base.py:139-143, model.get_embed on a batch: one row per example.
get_embed(batch) == [i \in 1..Len(batch) |-> EmbedOf(batch[i].input_ids)]

\* base.py:145, np.vstack: the blocks' rows, in list order.
RECURSIVE vstack_Reversed(_)
vstack_Reversed(blocks) ==
    IF blocks = <<>> THEN <<>>
    ELSE vstack_Reversed(Tail(blocks)) \o Head(blocks)

RECURSIVE vstack(_)
vstack(blocks) ==
    IF blocks = <<>> THEN <<>>
    ELSE Head(blocks) \o vstack(Tail(blocks))

\* torch.no_grad().__exit__: the mode saved on entry is restored.
NoGradExit_Leak(prev) == FALSE

NoGradExit(prev) == prev

\* base.py:127-131, dataset loaded, DataLoader built, ids extracted.
PredLoadDataset(o, split) ==
    /\ Idle
    /\ call' = "predict"
    /\ events' = << "load_dataset" >>
    /\ train_args' = NoTrainArgs
    /\ nextBatch' = 1
    /\ total_embeddings' = <<>>
    /\ stacked' = <<>>
    /\ saved' = NoSaved
    /\ ret' = <<>>
    /\ embedCtx' = {}
    /\ IF o = "ok"
       THEN /\ test' = split
            /\ dl_batch_size' = self.eval_batch_size
            /\ ids' = extract_ids(split)
            /\ pc' = "pred_prepare"
            /\ thrown' = "none"
            /\ err' = "none"
       ELSE /\ test' = <<>>
            /\ dl_batch_size' = None
            /\ ids' = <<>>
            /\ Raise(o)
    /\ UNCHANGED << args, self, loadModelCalls, modelDevice, modelTraining,
                    gradEnabled, gradPrev >>
    /\ UNCHANGED metricVars

\* base.py:133-135 without the model.eval() call.
PredPrepareModel_NoEval ==
    /\ pc = "pred_prepare"
    /\ modelDevice' = self.device
    /\ total_embeddings' = <<>>
    /\ events' = events \o << "to_device" >>
    /\ pc' = "pred_enter"
    /\ UNCHANGED << args, self, loadModelCalls, modelTraining, gradEnabled, gradPrev,
                    call, thrown, err, train_args, test, dl_batch_size,
                    ids, nextBatch, stacked, saved, ret, embedCtx >>
    /\ UNCHANGED metricVars

\* base.py:133-135, model.to(self.device); model.eval(); total_embeddings = []
PredPrepareModel ==
    /\ pc = "pred_prepare"
    /\ modelDevice' = self.device
    /\ modelTraining' = FALSE
    /\ total_embeddings' = <<>>
    /\ events' = events \o << "to_device", "eval" >>
    /\ pc' = "pred_enter"
    /\ UNCHANGED << args, self, loadModelCalls, gradEnabled, gradPrev,
                    call, thrown, err, train_args, test, dl_batch_size,
                    ids, nextBatch, stacked, saved, ret, embedCtx >>
    /\ UNCHANGED metricVars

\* base.py:137, `with torch.no_grad():` is entered.
PredEnterNoGrad ==
    /\ pc = "pred_enter"
    /\ gradPrev' = gradEnabled
    /\ gradEnabled' = FALSE
    /\ events' = Append(events, "enter_no_grad")
    /\ pc' = "pred_loop"
    /\ UNCHANGED << args, self, loadModelCalls, modelDevice, modelTraining,
                    call, thrown, err >>
    /\ UNCHANGED callVars
    /\ UNCHANGED metricVars

\* base.py:138-144, one iteration of the batch loop.  When get_embed
\* raises, the exception leaves the `with` block, whose exit runs.
PredBatch(o) ==
    /\ pc = "pred_loop"
    /\ nextBatch <= NumBatches(Len(test), dl_batch_size)
    /\ events' = Append(events, "get_embed")
    /\ embedCtx' = embedCtx \cup
            { [grad |-> gradEnabled, device |-> modelDevice, training |-> modelTraining] }
    /\ IF o = "ok"
       THEN /\ total_embeddings' =
                Append(total_embeddings, get_embed(Batch(test, dl_batch_size, nextBatch)))
            /\ nextBatch' = nextBatch + 1
            /\ UNCHANGED << pc, thrown, err, gradEnabled >>
       ELSE /\ gradEnabled' = NoGradExit(gradPrev)
            /\ Raise(o)
            /\ UNCHANGED << total_embeddings, nextBatch >>
    /\ UNCHANGED << args, self, loadModelCalls, modelDevice, modelTraining,
                    gradPrev, call, train_args, test, dl_batch_size,
                    ids, stacked, saved, ret >>
    /\ UNCHANGED metricVars

\* base.py:138/145, the iterator is exhausted and the `with` block exits.
PredExitNoGrad ==
    /\ pc = "pred_loop"
    /\ nextBatch > NumBatches(Len(test), dl_batch_size)
    /\ gradEnabled' = NoGradExit(gradPrev)
    /\ events' = Append(events, "exit_no_grad")
    /\ pc' = "pred_stack"
    /\ UNCHANGED << args, self, loadModelCalls, modelDevice, modelTraining,
                    gradPrev, call, thrown, err >>
    /\ UNCHANGED callVars
    /\ UNCHANGED metricVars

\* base.py:145, np.vstack(total_embeddings); numpy raises ValueError on an
\* empty list (an empty test split).
PredStack ==
    /\ pc = "pred_stack"
    /\ events' = Append(events, "vstack")
    /\ IF total_embeddings = <<>>
       THEN Raise("ValueError") /\ UNCHANGED stacked
       ELSE /\ stacked' = vstack(total_embeddings)
            /\ pc' = "pred_save"
            /\ UNCHANGED << thrown, err >>
    /\ UNCHANGED << args, self, loadModelCalls, modelDevice, modelTraining,
                    gradEnabled, gradPrev, call, train_args, test,
                    dl_batch_size, ids, nextBatch, total_embeddings, saved,
                    ret, embedCtx >>
    /\ UNCHANGED metricVars

\* base.py:148, self._save_inference_results((total_embeddings, ids), out_dir)
PredSave(o) ==
    /\ pc = "pred_save"
    /\ events' = Append(events, "save_inference")
    /\ saved' = [emb |-> stacked, ids |-> ids, called |-> TRUE]
    /\ IF o = "ok"
       THEN pc' = "pred_return" /\ UNCHANGED << thrown, err >>
       ELSE Raise(o)
    /\ UNCHANGED << args, self, loadModelCalls, modelDevice, modelTraining,
                    gradEnabled, gradPrev, call, train_args, test,
                    dl_batch_size, ids, nextBatch, total_embeddings, stacked,
                    ret, embedCtx >>
    /\ UNCHANGED metricVars

\* base.py:150, return total_embeddings
PredReturn ==
    /\ pc = "pred_return"
    /\ ret' = stacked
    /\ pc' = "returned"
    /\ UNCHANGED << args, self, loadModelCalls, modelDevice, modelTraining,
                    gradEnabled, gradPrev, call, events, thrown, err,
                    train_args, test, dl_batch_size, ids, nextBatch,
                    total_embeddings, stacked, saved, embedCtx >>
    /\ UNCHANGED metricVars

\* --------------------------------------------------------- metric function
\* Fixed-point unit for the floating-point values of softmax.
One == 10000

\* np.exp(d) for an integer d <= 0, in units of 1/One (e^-1 = 0.367879...).
RECURSIVE exp(_)
exp(d) == IF d >= 0 THEN One ELSE (exp(d + 1) * 3679) \div One

RECURSIVE SumSeq(_)
SumSeq(s) == IF s = <<>> THEN 0 ELSE Head(s) + SumSeq(Tail(s))

RECURSIVE MaxSeq(_)
MaxSeq(s) ==
    IF Len(s) = 1 THEN Head(s)
    ELSE LET m == MaxSeq(Tail(s)) IN IF Head(s) > m THEN Head(s) ELSE m

\* np.max(x): the maximum over the whole array.
ArrayMax(x) == MaxSeq([i \in 1..Len(x) |-> MaxSeq(x[i])])

\* e_x.sum(axis=0): one sum per column, taken over the rows.
SumAxis0(e_x) ==
    [j \in 1..Len(e_x[1]) |-> SumSeq([i \in 1..Len(e_x) |-> e_x[i][j]])]

\* base.py:21-24
softmax(x) ==
    LET mx == ArrayMax(x)
        e_x == [i \in 1..Len(x) |-> [j \in 1..Len(x[i]) |-> exp(x[i][j] - mx)]]
        s == SumAxis0(e_x)
    IN  [i \in 1..Len(x) |-> [j \in 1..Len(x[i]) |-> (e_x[i][j] * One) \div s[j]]]

Matrices ==
    UNION { [1..r -> [1..c -> 0..MaxLogit]] : r \in 1..MaxRows, c \in 1..MaxClasses }

ShiftedRow(x, r, k) ==
    [i \in 1..Len(x) |-> [j \in 1..Len(x[i]) |-> IF i = r THEN x[i][j] + k ELSE x[i][j]]]

MetricInit ==
    /\ m_pc = "ready"
    /\ logits \in Matrices
    /\ shiftRow \in 1..MaxRows
    /\ shiftRow <= Len(logits)
    /\ shiftBy \in 1..MaxShift
    /\ predictions = <<>>
    /\ predictionsShifted = <<>>

\* base.py:27-31, compute_f1 on (logits, labels): predictions = softmax(logits)
ComputeF1 ==
    /\ m_pc = "ready"
    /\ predictions' = softmax(logits)
    /\ m_pc' = "once"
    /\ UNCHANGED << logits, shiftRow, shiftBy, predictionsShifted >>
    /\ UNCHANGED estVars

\* compute_f1 on the same logits with a constant added to one row.
ComputeF1Shifted ==
    /\ m_pc = "once"
    /\ predictionsShifted' = softmax(ShiftedRow(logits, shiftRow, shiftBy))
    /\ m_pc' = "done"
    /\ UNCHANGED << logits, shiftRow, shiftBy, predictions >>
    /\ UNCHANGED estVars

\* ---------------------------------------------------------- specifications
Init == EstInit /\ MetricIdle

Next ==
    \/ \E a \in CtorArgs, cuda \in BOOLEAN, o \in Outcomes, training \in BOOLEAN :
            Construct(a, cuda, o, training)
    \/ \E o \in Outcomes : FitLoadDataset(o)
    \/ FitBuildArgs
    \/ \E o \in Outcomes : FitTrain(o)
    \/ \E o \in Outcomes : FitSaveState(o)
    \/ \E o \in Outcomes : FitSaveModel(o)
    \/ \E o \in Outcomes, split \in Splits : PredLoadDataset(o, split)
    \/ PredPrepareModel
    \/ PredEnterNoGrad
    \/ \E o \in Outcomes : PredBatch(o)
    \/ PredExitNoGrad
    \/ PredStack
    \/ \E o \in Outcomes : PredSave(o)
    \/ PredReturn

Spec == Init /\ [][Next]_vars

MetricNext == ComputeF1 \/ ComputeF1Shifted

InitMetric == EstInit /\ MetricInit

SpecMetric == InitMetric /\ [][MetricNext]_vars

\* ------------------------------------------------------------- properties
IsPrefix(s, t) == Len(s) <= Len(t) /\ SubSeq(t, 1, Len(s)) = s

Count(s, x) == Cardinality({ i \in 1..Len(s) : s[i] = x })

Last(s) == s[Len(s)]

Constructed == pc \notin {"new", "ctor_failed"}

TrainArgsBuilt == train_args # NoTrainArgs

PredictReturned == call = "predict" /\ pc = "returned"

Abs(n) == IF n < 0 THEN -n ELSE n

\* C1: when predict returns, the embeddings have as many rows as ids has
\* elements, and row i of the embeddings and element i of ids both come
\* from row i of the test split.
C1_OrderPreserved ==
    PredictReturned =>
        /\ Len(ret) = Len(ids)
        /\ Len(ids) = Len(test)
        /\ \A i \in 1..Len(ids) :
            /\ ret[i] = EmbedOf(test[i].input_ids)
            /\ ids[i] = test[i].doc_id

\* C1 witness: predict returned on a 3-row split in descending id order
\* with batch size 2 (which does not divide 3).
C1_Witness ==
    /\ PredictReturned
    /\ Len(test) = 3
    /\ dl_batch_size = 2
    /\ test[1].doc_id > test[2].doc_id
    /\ Len(total_embeddings) = 2

C3_EvalBatchDefault ==
    /\ Constructed =>
        self.eval_batch_size =
            (IF args.eval_batch_size = None THEN args.batch_size ELSE args.eval_batch_size)
    /\ PredictReturned => Len(ret) = Len(test)

\* C3 witness: predict returned 3 rows with a supplied eval_batch_size that
\* differs from batch_size.
C3_Witness ==
    /\ PredictReturned
    /\ args.eval_batch_size # None
    /\ args.eval_batch_size # args.batch_size
    /\ dl_batch_size = args.eval_batch_size
    /\ Len(ret) = 3

\* C4: save_steps=None gives save strategy 'epoch', save_steps=N gives
\* strategy 'steps' with interval N, and the training configuration fit
\* builds carries the strategy and interval resolved at construction.
C4_SaveStrategy ==
    /\ Constructed =>
        /\ args.save_steps = None => self.save_strategy = "epoch"
        /\ args.save_steps # None =>
            (self.save_strategy = "steps" /\ self.save_steps = args.save_steps)
    /\ TrainArgsBuilt =>
        /\ train_args.save_strategy = self.save_strategy
        /\ train_args.save_steps = self.save_steps

\* C4 witness: fit built its training configuration for save_steps=1000.
C4_Witness ==
    /\ call = "fit"
    /\ TrainArgsBuilt
    /\ args.save_steps = 1000
    /\ train_args.save_steps = 1000

\* C5: the training configuration fit builds has learning_rate = lr,
\* gradient_accumulation_steps = accum_steps, max_steps = train_steps,
\* warmup_steps = 500 and eval_steps = 5000.
C5_TrainingConfig ==
    TrainArgsBuilt =>
        /\ train_args.learning_rate = args.lr
        /\ train_args.gradient_accumulation_steps = args.accum_steps
        /\ train_args.max_steps = args.train_steps
        /\ train_args.warmup_steps = 500
        /\ train_args.eval_steps = 5000

\* C5 witness: the scenario train_steps=100, num_epochs=3, batch_size=8,
\* accum_steps=2, lr=3e-5 reached the built configuration.
C5_Witness ==
    /\ TrainArgsBuilt
    /\ args.train_steps = 100
    /\ args.num_epochs = 3
    /\ args.batch_size = 8
    /\ args.accum_steps = 2
    /\ args.lr = 30
    /\ train_args.learning_rate = 30

\* C6: every row of softmax(logits) sums to 1 within tolerance (one unit of
\* rounding per class), and a row's output is unchanged when a constant is
\* added to every logit of that row.
C6_RowSoftmax ==
    /\ m_pc \in {"once", "done"} =>
        \A i \in 1..Len(predictions) :
            Abs(SumSeq(predictions[i]) - One) <= Len(predictions[i])
    /\ m_pc = "done" =>
        \A j \in 1..Len(predictions[shiftRow]) :
            Abs(predictions[shiftRow][j] - predictionsShifted[shiftRow][j]) <= 1

\* C7: get_embed is only ever called with gradient tracking off, tracking is
\* off throughout the batch loop, and it is back on once the loop has been
\* left, by completion or by an exception.
C7_NoGradScope ==
    call = "predict" =>
        /\ \A c \in embedCtx : c.grad = FALSE
        /\ pc = "pred_loop" => gradEnabled = FALSE
        /\ pc \in {"pred_stack", "pred_save", "pred_return", "returned", "raised"} =>
            gradEnabled = TRUE

\* C7 witness: get_embed raised in the middle of the loop, after an earlier
\* batch had been embedded.
C7_Witness ==
    /\ call = "predict"
    /\ pc = "raised"
    /\ Last(events) = "get_embed"
    /\ Len(total_embeddings) >= 1

\* C8: fit's calls are a prefix of (load dataset, train, save state, save
\* model); a returned fit made all four; an error raised by a callee reaches
\* the caller unchanged and ends the call; and when the dataset hook, the
\* training driver or state persistence raised, _save_model was not invoked.
C8_FitOrder ==
    call = "fit" =>
        /\ IsPrefix(events, FullFitEvents)
        /\ pc = "returned" => (events = FullFitEvents /\ thrown = "none")
        /\ thrown # "none" => (pc = "raised" /\ err = thrown)
        /\ (pc = "raised" /\ Last(events) \in {"load_dataset", "train", "save_state"}) =>
            Count(events, "save_model") = 0

\* C8 witness: trainer.save_state() raised after training completed.
C8_Witness ==
    /\ call = "fit"
    /\ pc = "raised"
    /\ events = << "load_dataset", "train", "save_state" >>
    /\ err = "RuntimeError"

\* C9: every get_embed call sees the model on the resolved device and in
\* evaluation mode; _save_inference_results is invoked at most once, only
\* when every row of the split has been embedded, with (stacked embeddings,
\* ids); a returned predict invoked it exactly once and returns the array it
\* handed over; when a batch raised, the hook was not invoked.
C9_PredictOrder ==
    call = "predict" =>
        /\ \A c \in embedCtx : c.device = self.device /\ c.training = FALSE
        /\ Count(events, "save_inference") <= 1
        /\ saved.called =>
            /\ Count(events, "save_inference") = 1
            /\ Len(saved.emb) = Len(test)
            /\ Count(events, "get_embed") = Len(total_embeddings)
            /\ saved.emb = stacked
            /\ saved.ids = ids
        /\ pc = "returned" => (saved.called /\ ret = saved.emb)
        /\ (pc = "raised" /\ Last(events) = "get_embed") =>
            (~saved.called /\ Count(events, "save_inference") = 0)

\* C9 witness: predict returned after embedding two batches on the cuda
\* device and handing the result to the hook.
C9_Witness ==
    /\ PredictReturned
    /\ Len(total_embeddings) = 2
    /\ self.device = "cuda"
    /\ saved.called

\* C10: the evaluation batch size of the training configuration fit builds
\* and the batch size of predict's DataLoader both equal the effective
\* evaluation batch size resolved at construction.
C10_EvalBatchEverywhere ==
    /\ TrainArgsBuilt => train_args.per_device_eval_batch_size = self.eval_batch_size
    /\ (call = "predict" /\ dl_batch_size # None) => dl_batch_size = self.eval_batch_size

====
